---- MODULE Spec2Model ----
(***************************************************************************)
(* fastapi-mini-blog: the authentication core (security.py), the request   *)
(* handlers (main.py) and the three tables (database.py) as a state        *)
(* machine.  Every handler is cut at its database awaits: one action is    *)
(* the code that runs around one database statement, so that concurrent    *)
(* requests interleave exactly where the event loop can switch.            *)
(***************************************************************************)
EXTENDS Integers, Sequences, FiniteSets, TLC

\* ---------------------------------------------------------------- bounds
MaxUsers    == 2    \* rows in the users table
MaxPosts    == 1    \* rows in the posts table
MaxComments == 1    \* rows in the comments table
MaxInFlight == 2    \* requests suspended at an await at the same time
TickStep    == 30   \* minutes the clock advances in one step
MaxTime     == 60   \* the clock stops here

\* ------------------------------------------------- configuration (security.py)
SECRET_KEY == "9b73f2a1bdd7ae163444473d29a6885ffa22ab26117068f72a5a56a74d12d1fc"
ALGORITHM == "HS256"
ACCESS_TOKEN_EXPIRE_MINUTES == 30
ALLOWED_MAINTAINERS == {"dim"}

\* ------------------------------------------------------------ input domains
Usernames == {"dim", "alice"}
Passwords == {"pw1", "pw2"}
Salts     == {"s1"}
\* the sign-ups clients send: a maintainer, and a name signed up under two passwords
SignUps   == {<<"dim", "pw1">>, <<"alice", "pw1">>, <<"alice", "pw2">>}
Bodies    == {"hello"}
PostIds   == 1..MaxPosts
Limits    == {1, 10}
Skips     == {0, 1}

VARIABLES
    users,      \* user_table: set of [id, username, password]
    posts,      \* posts: set of [id, body, user_id]
    comments,   \* comments_table: set of [id, body, post_id, user_id]
    now,        \* datetime.utcnow(), in minutes
    inflight,   \* requests suspended at an await
    slots,      \* how many requests the server lets run at the same time
    last        \* what the latest handler step did and answered

vars == <<users, posts, comments, now, inflight, slots, last>>

\* ------------------------------------------------------------------ helpers
Max(S) == CHOOSE x \in S : \A y \in S : y <= x
Min(S) == CHOOSE x \in S : \A y \in S : x <= y
Ids(rows) == {r.id : r \in rows}

\* INTEGER PRIMARY KEY without AUTOINCREMENT: the next rowid is one more than
\* the largest rowid in the table, so ids restart at 1 once a table is emptied.
NextId(rows) == IF rows = {} THEN 1 ELSE Max(Ids(rows)) + 1

\* rows in descending id order, as a sequence
RECURSIVE OrderByIdDesc(_)
OrderByIdDesc(rows) ==
    IF rows = {} THEN <<>>
    ELSE LET top == CHOOSE r \in rows : r.id = Max(Ids(rows))
         IN  <<top>> \o OrderByIdDesc(rows \ {top})

RECURSIVE OrderByIdAsc(_)
OrderByIdAsc(rows) ==
    IF rows = {} THEN <<>>
    ELSE LET low == CHOOSE r \in rows : r.id = Min(Ids(rows))
         IN  <<low>> \o OrderByIdAsc(rows \ {low})

\* seq[skip+1 .. skip+limit], cut at the end of seq
Window(seq, limit, skip) ==
    LET hi == IF skip + limit < Len(seq) THEN skip + limit ELSE Len(seq)
    IN  IF skip >= Len(seq) THEN <<>> ELSE SubSeq(seq, skip + 1, hi)

\* -------------------------------------------------------- passwords (passlib)
\* A PBKDF2 digest string carries its salt; verify recomputes with that salt.
get_password_hash(password, salt) == [salt |-> salt, digest |-> <<salt, password>>]
verify_password(plain_password, hashed_password) ==
    hashed_password.digest = <<hashed_password.salt, plain_password>>

\* ------------------------------------------------------------- JWT (python-jose)
\* A token string is modelled by what decoding can tell about it: whether it
\* parses as a JWS, the algorithm in its header, the key that signed it, and
\* its claims.  An absent claim is the empty set.
jwt_encode(claims, key, algorithm) ==
    [form |-> "jws", alg |-> algorithm, key |-> key, sub |-> claims.sub, exp |-> claims.exp]

\* faulty variant: the signature is not verified
jwt_decode_nosig(token, key, algorithms, t) ==
    IF token.form # "jws" THEN [ok |-> FALSE, sub |-> {}]
    ELSE IF token.alg \notin algorithms THEN [ok |-> FALSE, sub |-> {}]
    ELSE IF \E e \in token.exp : e < t THEN [ok |-> FALSE, sub |-> {}]
    ELSE [ok |-> TRUE, sub |-> token.sub]

\* faulty variant: the exp claim is not validated
jwt_decode_noexp(token, key, algorithms, t) ==
    IF token.form # "jws" THEN [ok |-> FALSE, sub |-> {}]
    ELSE IF token.alg \notin algorithms THEN [ok |-> FALSE, sub |-> {}]
    ELSE IF token.key # key THEN [ok |-> FALSE, sub |-> {}]
    ELSE [ok |-> TRUE, sub |-> token.sub]

\* jwt.decode: JWTError (ok = FALSE) on a malformed string, an algorithm that
\* is not allowed, a signature made with another key, or exp < now.
jwt_decode(token, key, algorithms, t) ==
    IF token.form # "jws" THEN [ok |-> FALSE, sub |-> {}]
    ELSE IF token.alg \notin algorithms THEN [ok |-> FALSE, sub |-> {}]
    ELSE IF token.key # key THEN [ok |-> FALSE, sub |-> {}]
    ELSE IF \E e \in token.exp : e < t THEN [ok |-> FALSE, sub |-> {}]
    ELSE [ok |-> TRUE, sub |-> token.sub]

create_access_token(id_, t) ==
    jwt_encode([sub |-> {id_}, exp |-> {t + ACCESS_TOKEN_EXPIRE_MINUTES}],
               SECRET_KEY, ALGORITHM)

\* ------------------------------------------------------------ auth helpers
\* fetch_one of SELECT ... WHERE username = ?: the first row of a rowid scan.
\* The result is {} (None) or a one-row set.
get_user(username) ==
    LET found == {u \in users : u.username = username}
    IN  IF found = {} THEN {} ELSE {CHOOSE u \in found : u.id = Min(Ids(found))}

\* faulty variant: the password is not verified
authenticate_user_nopw(username, password) == get_user(username)

\* {} stands for the value False the code returns
authenticate_user(username, password) ==
    LET user == get_user(username)
    IN  IF user = {} THEN {}
        ELSE IF \E u \in user : ~verify_password(password, u.password) THEN {}
        ELSE user

\* {} stands for credentials_exception being raised
get_current_user(token) ==
    LET payload == jwt_decode(token, SECRET_KEY, {ALGORITHM}, now)
    IN  IF ~payload.ok THEN {}
        ELSE IF payload.sub = {} THEN {}
        ELSE get_user(CHOOSE s \in payload.sub : TRUE)

\* faulty variant: every authenticated user passes
verify_maintainer_any(user) == TRUE

verify_maintainer(user) == \A u \in user : u.username \in ALLOWED_MAINTAINERS

\* ------------------------------------------------------------------ clients
\* Token strings a client can present: one string for each way a token can be
\* wrong, and every string create_access_token can have produced so far for a
\* subject (whether or not the server has handed it out).
Garbage == [form |-> "garbage", alg |-> "", key |-> "", sub |-> {}, exp |-> {}]
Signed(key, alg, sub, exp) ==
    [form |-> "jws", alg |-> alg, key |-> key, sub |-> sub, exp |-> exp]
OtherTokens ==
    { Garbage,
      Signed("another-secret", ALGORITHM, {"dim"}, {MaxTime + ACCESS_TOKEN_EXPIRE_MINUTES}),
      Signed(SECRET_KEY, "none", {"dim"}, {MaxTime + ACCESS_TOKEN_EXPIRE_MINUTES}),
      Signed(SECRET_KEY, ALGORITHM, {}, {MaxTime + ACCESS_TOKEN_EXPIRE_MINUTES}),
      Signed(SECRET_KEY, ALGORITHM, {"bob"}, {MaxTime + ACCESS_TOKEN_EXPIRE_MINUTES}),
      Signed(SECRET_KEY, ALGORITHM, {"dim"}, {}) }
PastTimes == {t \in 0..now : t % TickStep = 0}
Presentable ==
    {create_access_token(u, t) : u \in Usernames, t \in PastTimes} \cup OtherTokens

\* ------------------------------------------------------- responses, requests
\* What a handler step did: the step, the HTTP status it answered with (0 while
\* the handler goes on), the detail and WWW-Authenticate header of an error,
\* the bearer token and credentials it was given, the user it resolved, the
\* access token it answered with and the rows it returned.
Ev(op, status) ==
    [op |-> op, status |-> status, detail |-> "", hdr |-> "",
     token |-> {}, user |-> {}, out |-> {}, cred |-> {}, result |-> <<>>]

credentials_exception(token) ==
    [Ev("get_current_user", 401) EXCEPT
        !.detail = "Could not validate credentials", !.hdr = "Bearer", !.token = {token}]

\* A suspended request: the handler, the await it waits at and its locals.
\* inflight is a set, so a request equal in all of these to one already
\* suspended is not taken up until that one has moved on.
Req(kind, pc, user, name, uid, post_id, body) ==
    [kind |-> kind, pc |-> pc, user |-> user, name |-> name, uid |-> uid,
     post_id |-> post_id, body |-> body]

\* the server takes a new request only while it runs fewer than `slots`
Admit == Cardinality(inflight) < slots

Startup ==
    /\ users = {}
    /\ posts = {}
    /\ comments = {}
    /\ now = 0
    /\ inflight = {}
    /\ last = Ev("startup", 0)

\* one request at a time
Init == Startup /\ slots = 1

\* up to MaxInFlight requests at a time
InitConcurrent == Startup /\ slots = MaxInFlight

\* ------------------------------------------------------------------- clock
Tick ==
    /\ now + TickStep <= MaxTime
    /\ now' = now + TickStep
    /\ last' = Ev("tick", 0)
    /\ UNCHANGED <<users, posts, comments, inflight, slots>>

\* -------------------------------------------------------- POST /register
\* variant that refuses a username already stored
RegisterInsert_unique(username, password, salt) ==
    LET row == [id |-> NextId(users), username |-> username,
                password |-> get_password_hash(password, salt)]
        r   == Req("register", "issue", {}, username, row.id, 0, "")
        cred == {[username |-> username, password |-> password]}
    IN  /\ Admit
        /\ IF get_user(username) # {}
           THEN /\ last' = [Ev("register.insert", 409) EXCEPT
                               !.detail = "Username already registered", !.cred = cred]
                /\ UNCHANGED <<users, inflight>>
           ELSE /\ Cardinality(users) < MaxUsers
                /\ r \notin inflight
                /\ users' = users \cup {row}
                /\ inflight' = inflight \cup {r}
                /\ last' = [Ev("register.insert", 0) EXCEPT !.cred = cred]
        /\ UNCHANGED <<posts, comments, now, slots>>

\* hash the password and insert the row (first await)
RegisterInsert(username, password, salt) ==
    LET row == [id |-> NextId(users), username |-> username,
                password |-> get_password_hash(password, salt)]
        r   == Req("register", "issue", {}, username, row.id, 0, "")
    IN  /\ Admit
        /\ Cardinality(users) < MaxUsers
        /\ r \notin inflight
        /\ users' = users \cup {row}
        /\ inflight' = inflight \cup {r}
        /\ last' = [Ev("register.insert", 0) EXCEPT
                       !.cred = {[username |-> username, password |-> password]}]
        /\ UNCHANGED <<posts, comments, now, slots>>

\* after the insert: create the token for user.username and answer 201
RegisterIssue(r) ==
    LET access_token == create_access_token(r.name, now)
    IN  /\ r.kind = "register" /\ r.pc = "issue"
        /\ inflight' = inflight \ {r}
        /\ last' = [Ev("register.issue", 201) EXCEPT !.out = {access_token}]
        /\ UNCHANGED <<users, posts, comments, now, slots>>

\* ------------------------------------------------------------ POST /token
\* faulty variant: an unknown username is answered differently from a wrong password
Login_enumerable(username, password) ==
    LET user == authenticate_user(username, password)
        cred == {[username |-> username, password |-> password]}
    IN  /\ Admit
        /\ IF user = {}
           THEN /\ last' = IF get_user(username) = {}
                           THEN [Ev("login.authenticate_user", 404) EXCEPT
                                    !.detail = "User not found", !.cred = cred]
                           ELSE [Ev("login.authenticate_user", 401) EXCEPT
                                    !.detail = "Incorrect username or password",
                                    !.hdr = "Bearer", !.cred = cred]
           ELSE /\ last' = [Ev("login.authenticate_user", 200) EXCEPT
                               !.cred = cred, !.user = user,
                               !.out = {create_access_token(username, now)}]
        /\ UNCHANGED <<users, posts, comments, now, inflight, slots>>

\* authenticate_user's lookup is the handler's only await; the password
\* check, the token and the answer follow it without another one.
Login(username, password) ==
    LET user == authenticate_user(username, password)
        cred == {[username |-> username, password |-> password]}
    IN  /\ Admit
        /\ IF user = {}
           THEN /\ last' = [Ev("login.authenticate_user", 401) EXCEPT
                               !.detail = "Incorrect username or password",
                               !.hdr = "Bearer", !.cred = cred]
           ELSE LET u == CHOOSE x \in user : TRUE
                    access_token == create_access_token(u.username, now)
                IN  /\ last' = [Ev("login.authenticate_user", 200) EXCEPT
                                   !.cred = cred, !.user = user, !.out = {access_token}]
        /\ UNCHANGED <<users, posts, comments, now, inflight, slots>>

\* ------------------------------------------------------------- POST /post
\* Depends(get_current_user): decode the bearer token and load its user
CreatePostAuth(token, body) ==
    LET current_user == get_current_user(token)
        r == Req("create_post", "insert", current_user, "", 0, 0, body)
    IN  /\ Admit
        /\ IF current_user = {}
           THEN /\ last' = credentials_exception(token)
                /\ UNCHANGED inflight
           ELSE /\ r \notin inflight
                /\ inflight' = inflight \cup {r}
                /\ last' = [Ev("get_current_user", 0) EXCEPT
                               !.token = {token}, !.user = current_user]
        /\ UNCHANGED <<users, posts, comments, now, slots>>

\* faulty variant: the post is attributed to the first user row
CreatePostInsert_firstuser(r) ==
    LET row == [id |-> NextId(posts), body |-> r.body, user_id |-> Min(Ids(users))]
    IN  /\ r.kind = "create_post" /\ r.pc = "insert"
        /\ Cardinality(posts) < MaxPosts
        /\ posts' = posts \cup {row}
        /\ inflight' = inflight \ {r}
        /\ last' = [Ev("create_post.insert", 201) EXCEPT
                       !.user = r.user, !.result = <<row>>]
        /\ UNCHANGED <<users, comments, now, slots>>

CreatePostInsert(r) ==
    LET current_user == CHOOSE u \in r.user : TRUE
        row == [id |-> NextId(posts), body |-> r.body, user_id |-> current_user.id]
    IN  /\ r.kind = "create_post" /\ r.pc = "insert"
        /\ Cardinality(posts) < MaxPosts
        /\ posts' = posts \cup {row}
        /\ inflight' = inflight \ {r}
        /\ last' = [Ev("create_post.insert", 201) EXCEPT
                       !.user = r.user, !.result = <<row>>]
        /\ UNCHANGED <<users, comments, now, slots>>

\* ---------------------------------------------------------- POST /comment
CreateCommentAuth(token, post_id, body) ==
    LET current_user == get_current_user(token)
        r == Req("create_comment", "check_post", current_user, "", 0, post_id, body)
    IN  /\ Admit
        /\ IF current_user = {}
           THEN /\ last' = credentials_exception(token)
                /\ UNCHANGED inflight
           ELSE /\ r \notin inflight
                /\ inflight' = inflight \cup {r}
                /\ last' = [Ev("get_current_user", 0) EXCEPT
                               !.token = {token}, !.user = current_user]
        /\ UNCHANGED <<users, posts, comments, now, slots>>

\* "FK validation: ensure post exists"
CreateCommentCheckPost(r) ==
    LET post == {p \in posts : p.id = r.post_id}
        r2 == [r EXCEPT !.pc = "insert"]
    IN  /\ r.kind = "create_comment" /\ r.pc = "check_post"
        /\ IF post = {}
           THEN /\ inflight' = inflight \ {r}
                /\ last' = [Ev("create_comment.check_post", 404) EXCEPT
                               !.detail = "Post not found", !.user = r.user]
           ELSE /\ r2 \notin inflight
                /\ inflight' = (inflight \ {r}) \cup {r2}
                /\ last' = [Ev("create_comment.check_post", 0) EXCEPT !.user = r.user]
        /\ UNCHANGED <<users, posts, comments, now, slots>>

CreateCommentInsert(r) ==
    LET current_user == CHOOSE u \in r.user : TRUE
        row == [id |-> NextId(comments), body |-> r.body, post_id |-> r.post_id,
                user_id |-> current_user.id]
    IN  /\ r.kind = "create_comment" /\ r.pc = "insert"
        /\ Cardinality(comments) < MaxComments
        /\ comments' = comments \cup {row}
        /\ inflight' = inflight \ {r}
        /\ last' = [Ev("create_comment.insert", 201) EXCEPT
                       !.user = r.user, !.result = <<row>>]
        /\ UNCHANGED <<users, posts, now, slots>>

\* -------------------------------------------------------- POST /_dev/reset
\* Depends(verify_maintainer), which depends on get_current_user
DevResetAuth(token) ==
    LET user == get_current_user(token)
        r == Req("dev_reset_db", "delete_comments", user, "", 0, 0, "")
    IN  /\ Admit
        /\ IF user = {}
           THEN /\ last' = credentials_exception(token)
                /\ UNCHANGED inflight
           ELSE IF ~verify_maintainer(user)
           THEN /\ last' = [Ev("verify_maintainer", 403) EXCEPT
                               !.detail = "Forbidden", !.token = {token}, !.user = user]
                /\ UNCHANGED inflight
           ELSE /\ r \notin inflight
                /\ inflight' = inflight \cup {r}
                /\ last' = [Ev("verify_maintainer", 0) EXCEPT
                               !.token = {token}, !.user = user]
        /\ UNCHANGED <<users, posts, comments, now, slots>>

DevResetDeleteComments(r) ==
    LET r2 == [r EXCEPT !.pc = "delete_posts"]
    IN  /\ r.kind = "dev_reset_db" /\ r.pc = "delete_comments"
        /\ r2 \notin inflight
        /\ comments' = {}
        /\ inflight' = (inflight \ {r}) \cup {r2}
        /\ last' = [Ev("dev_reset_db.delete_comments", 0) EXCEPT !.user = r.user]
        /\ UNCHANGED <<users, posts, now, slots>>

\* faulty variant: the reset also empties the users table
DevResetDeletePosts_users(r) ==
    /\ r.kind = "dev_reset_db" /\ r.pc = "delete_posts"
    /\ posts' = {}
    /\ users' = {}
    /\ inflight' = inflight \ {r}
    /\ last' = [Ev("dev_reset_db.delete_posts", 204) EXCEPT !.user = r.user]
    /\ UNCHANGED <<comments, now, slots>>

DevResetDeletePosts(r) ==
    /\ r.kind = "dev_reset_db" /\ r.pc = "delete_posts"
    /\ posts' = {}
    /\ inflight' = inflight \ {r}
    /\ last' = [Ev("dev_reset_db.delete_posts", 204) EXCEPT !.user = r.user]
    /\ UNCHANGED <<users, comments, now, slots>>

\* ------------------------------------------------------------ read endpoints
GetCommentsOnPost(post_id) ==
    /\ Admit
    /\ last' = [Ev("get_comments_on_post.select", 200) EXCEPT
                   !.result = OrderByIdAsc({c \in comments : c.post_id = post_id})]
    /\ UNCHANGED <<users, posts, comments, now, inflight, slots>>

GetPostWithCommentsPost(post_id) ==
    LET post == {p \in posts : p.id = post_id}
        r == Req("get_post_with_comments", "comments", {}, "", 0, post_id, "")
    IN  /\ Admit
        /\ IF post = {}
           THEN /\ last' = [Ev("get_post_with_comments.select_post", 404) EXCEPT
                               !.detail = "Post not found"]
                /\ UNCHANGED inflight
           ELSE /\ r \notin inflight
                /\ inflight' = inflight \cup {r}
                /\ last' = [Ev("get_post_with_comments.select_post", 0) EXCEPT
                               !.result = OrderByIdAsc(post)]
        /\ UNCHANGED <<users, posts, comments, now, slots>>

GetPostWithCommentsComments(r) ==
    /\ r.kind = "get_post_with_comments" /\ r.pc = "comments"
    /\ inflight' = inflight \ {r}
    /\ last' = [Ev("get_post_with_comments.select_comments", 200) EXCEPT
                   !.result = OrderByIdAsc({c \in comments : c.post_id = r.post_id})]
    /\ UNCHANGED <<users, posts, comments, now, slots>>

GetAllPosts(limit, skip) ==
    /\ Admit
    /\ last' = [Ev("get_all_posts.select", 200) EXCEPT
                   !.result = Window(OrderByIdDesc(posts), limit, skip)]
    /\ UNCHANGED <<users, posts, comments, now, inflight, slots>>

Requests ==
    \/ \E c \in SignUps, s \in Salts : RegisterInsert(c[1], c[2], s)
    \/ \E r \in inflight : RegisterIssue(r)
    \/ \E u \in Usernames, p \in Passwords : Login(u, p)
    \/ \E t \in Presentable, b \in Bodies : CreatePostAuth(t, b)
    \/ \E r \in inflight : CreatePostInsert(r)
    \/ \E t \in Presentable, i \in PostIds, b \in Bodies : CreateCommentAuth(t, i, b)
    \/ \E r \in inflight : CreateCommentCheckPost(r)
    \/ \E r \in inflight : CreateCommentInsert(r)
    \/ \E t \in Presentable : DevResetAuth(t)
    \/ \E r \in inflight : DevResetDeleteComments(r)
    \/ \E r \in inflight : DevResetDeletePosts(r)
    \/ \E i \in PostIds : GetCommentsOnPost(i)
    \/ \E i \in PostIds : GetPostWithCommentsPost(i)
    \/ \E r \in inflight : GetPostWithCommentsComments(r)
    \/ \E l \in Limits, k \in Skips : GetAllPosts(l, k)

Next ==
    \/ Tick
    \/ Requests

\* requests one at a time, over the lifetime of a token
Spec == Init /\ [][Next]_vars

\* concurrent requests, within one tick of the clock
SpecConcurrent == InitConcurrent /\ [][Requests]_vars

\* ======================================================================
\* Properties
\* ======================================================================
\* what the claims call a token whose signature matches SECRET_KEY/HS256
SignatureMatches(t) == t.form = "jws" /\ t.alg = ALGORITHM /\ t.key = SECRET_KEY
NotExpired(t, time) == \A e \in t.exp : time <= e
HasRow(t) == \E u \in users : u.username \in t.sub
Added(before, after) == after \ before
AuthOps == {"get_current_user", "verify_maintainer"}

\* C1: get_current_user returns a user row if and only if the token's
\* signature matches SECRET_KEY/HS256, its expiry has not passed, it carries a
\* sub claim and a user row with that username exists; the row it returns is
\* a stored row with that username, and in every other case the request ends
\* with 401 and no user.
C1_ResolveIffValid ==
    \A t \in last.token :
        LET valid == /\ SignatureMatches(t)
                     /\ NotExpired(t, now)
                     /\ t.sub # {}
                     /\ HasRow(t)
        IN  /\ last.op \in AuthOps
            /\ valid <=> last.user # {}
            /\ valid => \A u \in last.user : u \in users /\ u.username \in t.sub
            /\ ~valid => /\ last.op = "get_current_user"
                         /\ last.status = 401
                         /\ last.hdr = "Bearer"

\* a well-signed token accepted at the very minute it expires
C1_Witness ==
    /\ last.op = "get_current_user"
    /\ last.user # {}
    /\ now > 0
    /\ \E t \in last.token : t.exp = {now}

\* C2: a token leaves the server only in the answer of a register request
\* that inserted a user row, or of a login whose username and password
\* authenticated; its subject is the username of a row stored at that moment;
\* a failed login hands out no token.
C2_TokensOnlyFromAuth ==
    [][ /\ last'.out # {} =>
              \/ /\ last'.op = "register.issue"
                 /\ last'.status = 201
                 /\ \E r \in inflight \ inflight', u \in users :
                        /\ r.kind = "register"
                        /\ u.id = r.uid
                        /\ u.username = r.name
                        /\ \A t \in last'.out : t.sub = {u.username}
              \/ /\ last'.op = "login.authenticate_user"
                 /\ last'.status = 200
                 /\ \E c \in last'.cred, u \in users :
                        /\ u.username = c.username
                        /\ verify_password(c.password, u.password)
                        /\ \A t \in last'.out : t.sub = {u.username}
        /\ (last'.op = "login.authenticate_user" /\ last'.status # 200)
              => last'.out = {}
        /\ \A t \in last'.out : SignatureMatches(t)
      ]_vars

\* a login that authenticated and answered with a token
C2_Witness ==
    /\ last.op = "login.authenticate_user"
    /\ last.status = 200
    /\ last.out # {}

C4_OnlyExpiryEndsValidity ==
    [][ /\ \A t \in last'.out :
              /\ t.exp = {now' + ACCESS_TOKEN_EXPIRE_MINUTES}
              /\ t \in Presentable'
              /\ get_current_user(t)' # {}
        /\ \/ UNCHANGED <<users, now>>
           \/ \A t \in Presentable :
                 (get_current_user(t) # {} /\ NotExpired(t, now'))
                     => get_current_user(t)' # {}
        /\ \A t \in last'.token :
              ~NotExpired(t, now') => last'.status = 401 /\ last'.user = {}
      ]_vars

\* the token of a registered user, made at time 0, refused after it expired
C4_Witness ==
    /\ last.op = "get_current_user"
    /\ last.status = 401
    /\ \E t \in last.token :
          /\ SignatureMatches(t)
          /\ HasRow(t)
          /\ t.exp = {ACCESS_TOKEN_EXPIRE_MINUTES}
          /\ now > ACCESS_TOKEN_EXPIRE_MINUTES

\* C5: the token register answers with, passed to get_current_user before it
\* expires, resolves to the row that this registration inserted.
C5_ResolvesToCreatedRow ==
    [][ last'.op = "register.issue" =>
            \A r \in inflight \ inflight', t \in last'.out :
                get_current_user(t)' = {u \in users' : u.id = r.uid}
      ]_vars

\* C6: register does not check for duplicate usernames: every registration
\* the server takes up, also one whose username is already stored, inserts
\* one more row under a new id, leaves the earlier rows in place and is
\* answered 201 with a token.
C6_DuplicateRegistrationSucceeds ==
    [][ /\ last'.op = "register.insert" =>
              /\ last'.status = 0
              /\ users \subseteq users'
              /\ \E row \in Added(users, users') :
                    /\ users' = users \cup {row}
                    /\ row.id \notin Ids(users)
                    /\ \A c \in last'.cred : row.username = c.username
                    /\ \E r \in Added(inflight, inflight') :
                          r.kind = "register" /\ r.uid = row.id /\ r.name = row.username
        /\ last'.op = "register.issue" =>
              /\ last'.status = 201
              /\ last'.out # {}
              /\ users' = users
      ]_vars

\* two rows with one username, the later registration answered 201
C6_Witness ==
    /\ last.op = "register.issue"
    /\ last.status = 201
    /\ \E u, v \in users : u.id # v.id /\ u.username = v.username

\* C7: user rows are created only by register and never changed or deleted:
\* a step that changes the users table is register's insert and adds one row
\* to the rows already there; every other step leaves the table as it was.
C7_UsersOnlyGrowByRegister ==
    [][ users' # users =>
            /\ last'.op = "register.insert"
            /\ users \subseteq users'
            /\ Cardinality(users') = Cardinality(users) + 1
      ]_vars

\* /_dev/reset has run to its end and the user rows are still there
C7_Witness ==
    /\ last.op = "dev_reset_db.delete_posts"
    /\ last.status = 204
    /\ Cardinality(users) = MaxUsers

C9_OnlyMaintainersReset ==
    [][ /\ (~(posts \subseteq posts') \/ ~(comments \subseteq comments')) =>
              \E r \in inflight \ inflight' :
                  /\ r.kind = "dev_reset_db"
                  /\ r.user # {}
                  /\ \A u \in r.user : u.username \in ALLOWED_MAINTAINERS
        /\ last'.op = "verify_maintainer" =>
              /\ last'.user # {}
              /\ posts' = posts /\ comments' = comments
              /\ IF \A u \in last'.user : u.username \in ALLOWED_MAINTAINERS
                 THEN /\ last'.status = 0
                      /\ \E r \in Added(inflight, inflight') :
                            /\ r.kind = "dev_reset_db"
                            /\ r.pc = "delete_comments"
                            /\ r.user = last'.user
                 ELSE /\ last'.status = 403
                      /\ last'.detail = "Forbidden"
                      /\ inflight' = inflight
        /\ \A r \in Added(inflight, inflight') :
              r.kind = "dev_reset_db" =>
                  \/ r.pc = "delete_comments" /\ last'.op = "verify_maintainer"
                  \/ r.pc = "delete_posts" /\ last'.op = "dev_reset_db.delete_comments"
        /\ (last'.op = "get_current_user" /\ last'.status = 401) =>
              posts' = posts /\ comments' = comments /\ inflight' = inflight
        /\ last'.op = "dev_reset_db.delete_comments" =>
              comments' = {} /\ posts' = posts /\ last'.status = 0
        /\ last'.op = "dev_reset_db.delete_posts" =>
              /\ posts' = {} /\ comments' = comments /\ last'.status = 204
              /\ \E r \in inflight \ inflight' : r.pc = "delete_posts"
      ]_vars

\* a registered user who is no maintainer is answered 403, the posts stay
C9_Witness ==
    /\ last.op = "verify_maintainer"
    /\ last.status = 403
    /\ posts # {}

\* C10: every stored comment's post_id is the id of a stored post.
C10_CommentsHavePosts ==
    \A c \in comments : \E p \in posts : p.id = c.post_id

====
